---- MODULE Spec2Model ----
(***************************************************************************)
(* mt-mesonet-satellite: the Neo4j observation store (db/Neo4jConn.py) and *)
(* the update cycle that fills its gaps (update.py).                       *)
(*                                                                         *)
(* Three specifications share the module:                                  *)
(*   Spec       one update cycle: start_missing_tasks, then wait_on_tasks  *)
(*              polls the tasks and update_db posts the results, as in     *)
(*              operational_update (which passes start_now=True);          *)
(*   StoreSpec  the store under init_db, post and query;                   *)
(*   PlanSpec   find_missing_data and start_missing_tasks over a store.    *)
(***************************************************************************)
EXTENDS Integers, Sequences, FiniteSets, Bags, TLC

VARIABLES
    db,         \* the Neo4j graph: schema flag, Station names, Observation nodes, OBSERVES edges
    op,         \* the last store operation: "none", "init_db", "post" or "query"
    opArg,      \* its argument (the batch, the files, the query's parameters)
    opResult,   \* what it returned or raised
    dbBefore,   \* the graph as it was when the last operation started
    repeat,     \* how many times in a row post was called with the same batch
    pc,            \* where operational_update stands
    tasks,         \* wait_on_tasks' list of tasks (each task is its number)
    idx,           \* the position the for loop of this round has reached
    indices,       \* the positions whose download raised PendingTaskError this round
    round,         \* the number of poll rounds begun
    pendingRounds, \* per task: how many polls find the remote side still processing
    outcome,       \* per task: how the remote side ends, "ready" or "failed"
    launched,      \* per task: launch was called
    startNow,      \* the start_now argument given to start_missing_tasks
    polls,         \* per task: how many times download was called
    downloaded,    \* per task: how many times download returned with the files
    lastPoll,      \* per task: how its last download call ended
    posted,        \* update_db has called conn.post
    today,         \* dt.date.today(), as a number of days since the epoch
    catalog,       \* per product: its layers, each with its IsQA mark
    debug,         \* assert statements are executed (python without -O)
    planOp,        \* the planning call made: "none", "find_missing_data", "start_missing_tasks"
    planResult     \* what it returned or raised

storeVars == <<db, op, opArg, opResult, dbBefore, repeat>>
schedVars == <<pc, tasks, idx, indices, round, pendingRounds, outcome, launched, startNow,
               polls, downloaded, lastPoll, posted>>
planVars == <<today, catalog, debug, planOp, planResult>>
vars == <<storeVars, schedVars, planVars>>

----------------------------------------------------------------------------
(* Bounds of the model.                                                    *)

\* longest batch handed to post, and most lines of a data_init file
MaxBatch == 2
\* most tasks one update cycle starts
MaxTasks == 3
\* most polls that find one task still processing
MaxPending == 2
\* the latest day today may be
MaxDay == 3

----------------------------------------------------------------------------
(* Rows: what to_db_format hands to post, one mapping per row with the     *)
(* keys of _post_data's query parameters.  Names and values are strings    *)
(* (a value stands for a float), timestamps are integer seconds.           *)

MkRow(st, id, pf, el, v, ts) ==
    [station |-> st, id |-> id, platform |-> pf, element |-> el,
     value |-> v, units |-> "unitless", timestamp |-> ts]

\* r2 has r1's id and another value; r5 is r1's observation seen from another
\* station at another time; r6 and r7 fall on later days than the rest.
Rows ==
    { MkRow("S1", "a", "P1", "ndvi", "0.41", 100),
      MkRow("S1", "a", "P1", "ndvi", "0.52", 100),
      MkRow("S1", "b", "P1", "ndvi", "0.41", 200),
      MkRow("S1", "c", "P1", "ndvi", "0.63", 300),
      MkRow("S2", "a", "P1", "ndvi", "0.41", 200),
      MkRow("S1", "d", "P1", "EVI",  "0.41", 86500),
      MkRow("S2", "e", "P2", "EVI",  "0.52", 172900),
      MkRow("S1", "f", "P1", "EVI",  "0.41", 250) }

SeqsUpTo(S, n) == UNION { [1..k -> S] : k \in 0..n }

Batches == SeqsUpTo(Rows, MaxBatch)

----------------------------------------------------------------------------
(* The graph.                                                              *)

\* Stations, Observations and edges are bags: the graph may hold two nodes
\* with the same properties, and two edges between the same nodes.
EmptyDb == [schema |-> FALSE, stations |-> EmptyBag, obs |-> EmptyBag, edges |-> EmptyBag]

\* the properties of an Observation node, as both writers set them
ObsProps(row) ==
    [id |-> row.id, platform |-> row.platform, element |-> row.element,
     value |-> row.value, units |-> row.units]

\* the OBSERVES edge of a row; a row's timestamp is an integer number of
\* seconds, which toInteger leaves as it is
Edge(row) ==
    [station |-> row.station, obs |-> ObsProps(row), timestamp |-> row.timestamp]

\* Cypher's CREATE: one more copy; MERGE: a copy only when there is none
Create(bag, x) == bag (+) SetToBag({x})
Merge(bag, x) == IF BagIn(x, bag) THEN bag ELSE Create(bag, x)

\* obsIdConstraint: a node with this id exists
IdTaken(d, id) == \E o \in BagToSet(d.obs) : o.id = id

\* _post_data with the edge CREATEd, not MERGEd
PostDataCreateEdge(d, row) ==
    IF ~BagIn(ObsProps(row), d.obs) /\ d.schema /\ IdTaken(d, row.id)
    THEN [db |-> d, err |-> "ConstraintError"]
    ELSE [db |-> [d EXCEPT !.stations = Merge(@, row.station),
                           !.obs = Merge(@, ObsProps(row)),
                           !.edges = Create(@, Edge(row))],
          err |-> "none"]

\* _post_data on a store that does not enforce obsIdConstraint
PostDataUnconstrained(d, row) ==
    [db |-> [d EXCEPT !.stations = Merge(@, row.station),
                      !.obs = Merge(@, ObsProps(row)),
                      !.edges = Merge(@, Edge(row))],
     err |-> "none"]

(* One transaction of _post_data.  MERGE (o:Observation {...}) binds the   *)
(* node carrying all five properties or creates it; creating a second node *)
(* with a stored id violates obsIdConstraint, and the transaction, the     *)
(* Station it merged included, rolls back.                                 *)
_post_data(d, row) ==
    IF ~BagIn(ObsProps(row), d.obs) /\ d.schema /\ IdTaken(d, row.id)
    THEN [db |-> d, err |-> "ConstraintError"]
    ELSE [db |-> [d EXCEPT !.stations = Merge(@, row.station),
                           !.obs = Merge(@, ObsProps(row)),
                           !.edges = Merge(@, Edge(row))],
          err |-> "none"]

\* post with the try/except around the whole loop: the first
\* ConstraintError ends it
RECURSIVE PostAbortOnError(_, _)
PostAbortOnError(d, dat) ==
    IF dat = <<>>
    THEN [db |-> d, raised |-> "none"]
    ELSE LET r == _post_data(d, Head(dat))
         IN  IF r.err = "ConstraintError"
             THEN [db |-> d, raised |-> "none"]
             ELSE PostAbortOnError(r.db, Tail(dat))

\* post with the record's MERGE of its Station kept when the record collides
RECURSIVE PostWithoutRollback(_, _)
PostWithoutRollback(d, dat) ==
    IF dat = <<>>
    THEN [db |-> d, raised |-> "none"]
    ELSE LET r == _post_data(d, Head(dat))
         IN  IF r.err = "ConstraintError"
             THEN PostWithoutRollback([d EXCEPT !.stations = Merge(@, Head(dat).station)],
                                      Tail(dat))
             ELSE PostWithoutRollback(r.db, Tail(dat))

(* post: every row in its own transaction; a ConstraintError is printed    *)
(* and the loop goes on with the next row.  No other error arises in the   *)
(* model, so post returns normally.                                        *)
RECURSIVE post(_, _)
post(d, dat) ==
    IF dat = <<>>
    THEN [db |-> d, raised |-> "none"]
    ELSE LET r == _post_data(d, Head(dat))
         IN  IF r.err = "ConstraintError"
             THEN post(d, Tail(dat))
             ELSE post(r.db, Tail(dat))

(* _build_query: one record per path (obs)<-[o:OBSERVES]-(s) that passes   *)
(* the WHERE clause, its values in the order of the RETURN clause.  The    *)
(* result is a bag: two paths may yield equal records.                     *)
Returned(e) == <<e.station, e.timestamp, e.obs.platform, e.obs.element, e.obs.value>>

RECURSIVE Copies(_, _)
Copies(bag, S) ==
    IF S = {} THEN 0
    ELSE LET x == CHOOSE y \in S : TRUE
         IN  CopiesIn(x, bag) + Copies(bag, S \ {x})

_build_query(d, station, start_time, end_time, element) ==
    LET paths == { e \in BagToSet(d.edges) :
                     /\ e.timestamp >= start_time
                     /\ e.timestamp <= end_time
                     /\ e.station = station
                     /\ e.obs.element = element }
    IN  [ t \in { Returned(e) : e \in paths } |->
            Copies(d.edges, { e \in paths : Returned(e) = t }) ]

(* query: pd.DataFrame(response) has one column per position of the        *)
(* records, and none when there is no record; dat.columns = [...] names    *)
(* the columns by position and raises ValueError when their number is not  *)
(* five.                                                                   *)
Columns(t) ==
    [value |-> t[1], date |-> t[2], station |-> t[3], platform |-> t[4], element |-> t[5]]

query(d, station, start_time, end_time, element) ==
    LET response == _build_query(d, station, start_time, end_time, element)
    IN  IF DOMAIN response = {}
        THEN [raised |-> "ValueError", dat |-> EmptyBag]
        ELSE [raised |-> "none",
              dat |-> [ r \in { Columns(t) : t \in DOMAIN response } |->
                          response[<<r.value, r.date, r.station, r.platform, r.element>>] ]]

(* _init_index, one transaction: CREATE INDEX and CREATE CONSTRAINT have   *)
(* no IF NOT EXISTS, so they fail on a store that has them, and a          *)
(* uniqueness constraint cannot be created over nodes that violate it.     *)
_init_index(d) ==
    IF \/ d.schema
       \/ \E o1, o2 \in BagToSet(d.obs) : o1 # o2 /\ o1.id = o2.id
       \/ \E o \in BagToSet(d.obs) : CopiesIn(o, d.obs) > 1
       \/ \E n \in BagToSet(d.stations) : CopiesIn(n, d.stations) > 1
    THEN [db |-> d, err |-> "ClientError"]
    ELSE [db |-> [d EXCEPT !.schema = TRUE], err |-> "none"]

\* _init_db on a store that does not enforce obsIdConstraint
RECURSIVE LoadLinesUnchecked(_, _)
LoadLinesUnchecked(d, lines) ==
    IF lines = <<>>
    THEN [db |-> d, err |-> "none"]
    ELSE LET row == Head(lines)
         IN  LoadLinesUnchecked([d EXCEPT !.stations = Merge(@, row.station),
                                          !.obs = Create(@, ObsProps(row)),
                                          !.edges = Create(@, Edge(row))],
                                Tail(lines))

(* _init_db, one transaction per file: each line MERGEs its Station and    *)
(* CREATEs its Observation and its edge; a line whose id is stored already *)
(* violates obsIdConstraint and the whole file rolls back.                 *)
RECURSIVE LoadLines(_, _)
LoadLines(d, lines) ==
    IF lines = <<>>
    THEN [db |-> d, err |-> "none"]
    ELSE LET row == Head(lines)
         IN  IF d.schema /\ IdTaken(d, row.id)
             THEN [db |-> d, err |-> "ConstraintError"]
             ELSE LoadLines([d EXCEPT !.stations = Merge(@, row.station),
                                      !.obs = Create(@, ObsProps(row)),
                                      !.edges = Create(@, Edge(row))],
                            Tail(lines))

_init_db(d, lines) ==
    LET r == LoadLines(d, lines)
    IN  IF r.err = "none" THEN r ELSE [db |-> d, err |-> r.err]

(* init_db: _init_index, then the files one by one; no error is caught, so *)
(* the first one ends the call and what was committed before it stays.     *)
RECURSIVE LoadFiles(_, _)
LoadFiles(d, files) ==
    IF files = <<>>
    THEN [db |-> d, raised |-> "none"]
    ELSE LET r == _init_db(d, Head(files))
         IN  IF r.err # "none"
             THEN [db |-> d, raised |-> r.err]
             ELSE LoadFiles(r.db, Tail(files))

init_db(d, files) ==
    LET i == _init_index(d)
    IN  IF i.err # "none"
        THEN [db |-> d, raised |-> i.err]
        ELSE LoadFiles(i.db, files)

----------------------------------------------------------------------------
(* The store's operations as actions.                                      *)

\* the directories init_db is given: no data_init file, or one
FileSets == { <<>> } \cup { <<b>> : b \in Batches }

Stations == { r.station : r \in Rows } \cup { "S3" }
Elements == { r.element : r \in Rows }
Times == { 100, 150, 300, 400 }

\* the update cycle's variables while only the store is looked at
SchedIdle ==
    /\ pc = "idle"
    /\ tasks = <<>>
    /\ idx = 1
    /\ indices = <<>>
    /\ round = 0
    /\ pendingRounds = <<>>
    /\ outcome = <<>>
    /\ launched = <<>>
    /\ startNow = TRUE
    /\ polls = <<>>
    /\ downloaded = <<>>
    /\ lastPoll = <<>>
    /\ posted = FALSE

\* the planner's variables while it is not looked at
PlanIdle ==
    /\ today = 0
    /\ catalog = <<>>
    /\ debug = TRUE
    /\ planOp = "none"
    /\ planResult = "none"

StoreInit ==
    /\ db = EmptyDb
    /\ op = "none"
    /\ opArg = <<>>
    /\ opResult = "none"
    /\ dbBefore = EmptyDb
    /\ repeat = 0
    /\ SchedIdle
    /\ PlanIdle

InitDb ==
    \E files \in FileSets :
        LET r == init_db(db, files)
        IN  /\ op = "none"
            /\ db' = r.db
            /\ op' = "init_db"
            /\ opArg' = files
            /\ opResult' = r.raised
            /\ dbBefore' = db
            /\ repeat' = 0
            /\ UNCHANGED <<schedVars, planVars>>

Post ==
    \E dat \in Batches :
        LET r == post(db, dat)
        IN  /\ op = "none"
            /\ db' = r.db
            /\ op' = "post"
            /\ opArg' = dat
            /\ opResult' = r.raised
            /\ dbBefore' = db
            /\ repeat' = 1
            /\ UNCHANGED <<schedVars, planVars>>

\* post called once more with the batch of the call before
PostAgain ==
    LET r == post(db, opArg)
    IN  /\ op = "post"
        /\ repeat = 1
        /\ db' = r.db
        /\ opResult' = r.raised
        /\ dbBefore' = db
        /\ repeat' = 2
        /\ UNCHANGED <<op, opArg>>
        /\ UNCHANGED <<schedVars, planVars>>

\* the caller is done with the last call's result
Return ==
    /\ op # "none"
    /\ op' = "none"
    /\ opArg' = <<>>
    /\ opResult' = "none"
    /\ dbBefore' = db
    /\ repeat' = 0
    /\ UNCHANGED db
    /\ UNCHANGED <<schedVars, planVars>>

Query ==
    \E station \in Stations, element \in Elements, start_time \in Times, end_time \in Times :
        /\ op = "none"
        /\ op' = "query"
        /\ opArg' = [station |-> station, start_time |-> start_time,
                     end_time |-> end_time, element |-> element]
        /\ opResult' = query(db, station, start_time, end_time, element)
        /\ dbBefore' = db
        /\ repeat' = 0
        /\ UNCHANGED db
        /\ UNCHANGED <<schedVars, planVars>>

StoreNext == InitDb \/ Post \/ PostAgain \/ Query \/ Return

StoreSpec == StoreInit /\ [][StoreNext]_vars

----------------------------------------------------------------------------
(* One update cycle: operational_update.                                   *)

\* the store's variables while only the update cycle is looked at
StoreIdle ==
    /\ db = EmptyDb
    /\ op = "none"
    /\ opArg = <<>>
    /\ opResult = "none"
    /\ dbBefore = EmptyDb
    /\ repeat = 0

Outcomes == { "ready", "failed" }

Init ==
    /\ StoreIdle
    /\ PlanIdle
    /\ pc = "start_missing_tasks"
    /\ tasks = <<>>
    /\ idx = 1
    /\ indices = <<>>
    /\ round = 0
    /\ \E n \in 0..MaxTasks :
          /\ pendingRounds \in [1..n -> 0..MaxPending]
          /\ outcome \in [1..n -> Outcomes]
          /\ launched = [t \in 1..n |-> FALSE]
          /\ polls = [t \in 1..n |-> 0]
          /\ downloaded = [t \in 1..n |-> 0]
          /\ lastPoll = [t \in 1..n |-> "none"]
    /\ startNow \in BOOLEAN
    /\ posted = FALSE

(* Task.download as the Task contract gives it: PendingTaskError while the *)
(* remote side is processing, the files once it is ready, another error    *)
(* when it reports failure.  The contract is silent on a task that was     *)
(* never launched: pendingRounds and outcome range over every case.        *)
download(t) ==
    IF polls[t] < pendingRounds[t] THEN "PendingTaskError"
    ELSE IF outcome[t] = "ready" THEN "downloaded"
    ELSE "failed"

\* unpacking a Submit with [*x]: a Submit is no iterable
UnpackSubmit == "TypeError"

\* lines 117-118 with the list of tasks left as it was
GetterKeepsAll(ts, ix) ==
    IF Len(ix) = 0 THEN [err |-> "TypeError", tasks |-> ts]
    ELSE IF Len(ix) = 1 THEN [err |-> UnpackSubmit, tasks |-> ts]
    ELSE [err |-> "none", tasks |-> ts]

(* Lines 117-122: itemgetter raises TypeError when given no index;         *)
(* with one index it returns the task itself, not a tuple, and [*task]     *)
(* unpacks the task; with more it returns the tuple of the tasks.          *)
getter(ts, ix) ==
    IF Len(ix) = 0 THEN [err |-> "TypeError", tasks |-> ts]
    ELSE IF Len(ix) = 1 THEN [err |-> UnpackSubmit, tasks |-> ts]
    ELSE [err |-> "none", tasks |-> [i \in 1..Len(ix) |-> ts[ix[i]]]]

StartWithoutLaunch ==
    /\ pc = "start_missing_tasks"
    /\ launched' = launched
    /\ tasks' = [t \in DOMAIN launched |-> t]
    /\ pc' = "download"
    /\ idx' = 1
    /\ indices' = <<>>
    /\ round' = 1
    /\ UNCHANGED <<pendingRounds, outcome, polls, downloaded, lastPoll, posted, startNow>>
    /\ UNCHANGED <<storeVars, planVars>>

\* start_missing_tasks, lines 87-90: the planned tasks are launched when
\* start_now is set (operational_update passes True) and returned either
\* way; wait_on_tasks then begins its first round with the returned list
StartMissingTasks ==
    /\ pc = "start_missing_tasks"
    /\ launched' = [t \in DOMAIN launched |-> startNow]
    /\ tasks' = [t \in DOMAIN launched |-> t]
    /\ pc' = "download"
    /\ idx' = 1
    /\ indices' = <<>>
    /\ round' = 1
    /\ UNCHANGED <<pendingRounds, outcome, polls, downloaded, lastPoll, posted, startNow>>
    /\ UNCHANGED <<storeVars, planVars>>

DownloadSwallowsFailure ==
    /\ pc = "download"
    /\ idx <= Len(tasks)
    /\ LET t == tasks[idx]
           r == download(t)
       IN  /\ polls' = [polls EXCEPT ![t] = @ + 1]
           /\ lastPoll' = [lastPoll EXCEPT ![t] = r]
           /\ downloaded' = IF r = "downloaded"
                             THEN [downloaded EXCEPT ![t] = @ + 1]
                             ELSE downloaded
           /\ indices' = IF r = "PendingTaskError" THEN Append(indices, idx) ELSE indices
           /\ pc' = pc
           /\ idx' = idx + 1
    /\ UNCHANGED <<tasks, round, pendingRounds, outcome, launched, posted, startNow>>
    /\ UNCHANGED <<storeVars, planVars>>

\* lines 111-116: the next task of the round is polled
Download ==
    /\ pc = "download"
    /\ idx <= Len(tasks)
    /\ LET t == tasks[idx]
           r == download(t)
       IN  /\ polls' = [polls EXCEPT ![t] = @ + 1]
           /\ lastPoll' = [lastPoll EXCEPT ![t] = r]
           /\ downloaded' = IF r = "downloaded"
                             THEN [downloaded EXCEPT ![t] = @ + 1]
                             ELSE downloaded
           /\ indices' = IF r = "PendingTaskError" THEN Append(indices, idx) ELSE indices
           /\ pc' = IF r = "failed" THEN "raised" ELSE pc
           /\ idx' = idx + 1
    /\ UNCHANGED <<tasks, round, pendingRounds, outcome, launched, posted, startNow>>
    /\ UNCHANGED <<storeVars, planVars>>

\* lines 117-122: the round is over; the pending tasks are kept, or the
\* TypeError ends the loop
EndRound ==
    /\ pc = "download"
    /\ idx > Len(tasks)
    /\ LET g == getter(tasks, indices)
       IN  /\ tasks' = g.tasks
           /\ pc' = IF g.err = "TypeError" THEN "update_db" ELSE "sleep"
    /\ UNCHANGED <<idx, indices, round, pendingRounds, outcome, launched,
                   polls, downloaded, lastPoll, posted, startNow>>
    /\ UNCHANGED <<storeVars, planVars>>

\* lines 124-125 and the next turn of while True
Sleep ==
    /\ pc = "sleep"
    /\ pc' = "download"
    /\ idx' = 1
    /\ indices' = <<>>
    /\ round' = round + 1
    /\ UNCHANGED <<tasks, pendingRounds, outcome, launched, polls, downloaded,
                   lastPoll, posted, startNow>>
    /\ UNCHANGED <<storeVars, planVars>>

\* update_db: the downloaded files are cleaned and posted
UpdateDb ==
    /\ pc = "update_db"
    /\ posted' = TRUE
    /\ pc' = "done"
    /\ UNCHANGED <<tasks, idx, indices, round, pendingRounds, outcome, launched,
                   polls, downloaded, lastPoll, startNow>>
    /\ UNCHANGED <<storeVars, planVars>>

Next == StartMissingTasks \/ Download \/ EndRound \/ Sleep \/ UpdateDb

Spec == Init /\ [][Next]_vars

----------------------------------------------------------------------------
(* Gap detection and task planning: find_missing_data, start_missing_tasks.*)

\* the characters of the names the model uses
Chars(s) ==
    CASE s = "ndvi" -> <<"n", "d", "v", "i">>
      [] s = "EVI" -> <<"E", "V", "I">>
      [] s = "NDVI" -> <<"N", "D", "V", "I">>
      [] s = "NDVI_std_dev" -> <<"N", "D", "V", "I", "_", "s", "t", "d", "_", "d", "e", "v">>
      [] s = "NDVI_pft" -> <<"N", "D", "V", "I", "_", "p", "f", "t">>
      [] s = "NDVI_STD_dev" -> <<"N", "D", "V", "I", "_", "S", "T", "D", "_", "d", "e", "v">>
      [] s = "EVI2" -> <<"E", "V", "I", "2">>
      [] s = "EVI_StdDev" -> <<"E", "V", "I", "_", "S", "t", "d", "D", "e", "v">>
      [] s = "evi_Quality" -> <<"e", "v", "i", "_", "Q", "u", "a", "l", "i", "t", "y">>
      [] s = "Fpar" -> <<"F", "p", "a", "r">>
      [] s = "_pft" -> <<"_", "p", "f", "t">>
      [] s = "_std_" -> <<"_", "s", "t", "d", "_">>
      [] s = "StdDev" -> <<"S", "t", "d", "D", "e", "v">>

UpperCase == <<"A", "B", "C", "D", "E", "F", "G", "H", "I", "J", "K", "L", "M",
               "N", "O", "P", "Q", "R", "S", "T", "U", "V", "W", "X", "Y", "Z">>
LowerCase == <<"a", "b", "c", "d", "e", "f", "g", "h", "i", "j", "k", "l", "m",
               "n", "o", "p", "q", "r", "s", "t", "u", "v", "w", "x", "y", "z">>

\* str.lower
lower(cs) ==
    [i \in 1..Len(cs) |->
        IF \E k \in 1..Len(UpperCase) : UpperCase[k] = cs[i]
        THEN LowerCase[CHOOSE k \in 1..Len(UpperCase) : UpperCase[k] = cs[i]]
        ELSE cs[i]]

\* needle in hay
Contains(hay, needle) ==
    \E i \in 0..(Len(hay) - Len(needle)) : SubSeq(hay, i + 1, i + Len(needle)) = needle

RM_STRINGS == <<"_pft", "_std_", "StdDev">>

\* re.search('|'.join(RM_STRINGS), n): one of the literals occurs in n
SearchRmStrings(n) ==
    \E k \in 1..Len(RM_STRINGS) : Contains(Chars(n), Chars(RM_STRINGS[k]))

SecondsPerDay == 86400

\* the calendar day of a time
Day(ts) == ts \div SecondsPerDay

Max(S) == CHOOSE m \in S : \A x \in S : x <= m

(* conn.get_latest: per platform and element in the store, the latest edge *)
(* timestamp, as a time.  start_missing_tasks reads the columns platform,  *)
(* element and date of it.                                                 *)
get_latest(d) ==
    LET E == BagToSet(d.edges)
    IN  { [platform |-> k[1], element |-> k[2],
           date |-> Max({ e.timestamp : e \in { x \in E : x.obs.platform = k[1]
                                                        /\ x.obs.element = k[2] } })] :
          k \in { <<e.obs.platform, e.obs.element>> : e \in E } }

\* find_missing_data without the day added
FindMissingSameDay(d) == get_latest(d)

\* find_missing_data: every date of get_latest, one day later
find_missing_data(d) ==
    { [r EXCEPT !.date = @ + SecondsPerDay] : r \in get_latest(d) }

\* lines 54-60 with the match on the name as it is written
LayersCaseSensitive(elements, layers) ==
    { k \in DOMAIN layers :
        /\ \E e \in elements : Contains(Chars(k), Chars(e)) /\ ~layers[k].IsQA
        /\ ~SearchRmStrings(k) }

(* Lines 54-60: for every element of the platform, the layers whose        *)
(* lowered name holds the lowered element and that are not QA, less those  *)
(* RM_STRINGS matches; then set(layers).                                   *)
SelectLayers(elements, layers) ==
    { k \in DOMAIN layers :
        /\ \E e \in elements : Contains(lower(Chars(k)), lower(Chars(e))) /\ ~layers[k].IsQA
        /\ ~SearchRmStrings(k) }

\* the orders a set may be listed in
Perms(S) == { f \in [1..Cardinality(S) -> S] : \A x \in S : \E i \in DOMAIN f : f[i] = x }

\* lines 62-64 without the assert
DatesUnchecked(sub, dbg) == TRUE

\* the assert of lines 62-64, when assert statements are executed: the
\* platform's dates, duplicates dropped, are one
AssertOneDate(sub, dbg) == dbg => Cardinality({ r.date : r \in sub }) = 1

(* A datetime.date, from the number of days since 1970-01-01: the         *)
(* proleptic Gregorian calendar of Python's date.                          *)
date(z) ==
    LET s == z + 719468
        era == s \div 146097
        doe == s - era * 146097
        yoe == (doe - doe \div 1460 + doe \div 36524 - doe \div 146096) \div 365
        doy == doe - (365 * yoe + yoe \div 4 - yoe \div 100)
        mp == (5 * doy + 2) \div 153
        mo == IF mp < 10 THEN mp + 3 ELSE mp - 9
    IN  [year |-> yoe + era * 400 + (IF mo <= 2 THEN 1 ELSE 0),
         month |-> mo,
         day |-> doy - (153 * mp + 2) \div 5 + 1]

DigitChars == <<"0", "1", "2", "3", "4", "5", "6", "7", "8", "9">>

\* n in decimal, zero-padded to w characters
RECURSIVE Digits(_, _)
Digits(n, w) ==
    IF w = 0 THEN <<>> ELSE Append(Digits(n \div 10, w - 1), DigitChars[(n % 10) + 1])

\* str(date): YYYY-MM-DD
str(z) ==
    LET c == date(z)
    IN  Digits(c.year, 4) \o <<"-">> \o Digits(c.month, 2) \o <<"-">> \o Digits(c.day, 2)

\* s.replace("-", "")
replace(s) == LET NoDash(c) == c # "-" IN SelectSeq(s, NoDash)

\* lines 74-76 with the dashes left in the dates
TaskNameDashed(p, d, tday) == <<p, "_">> \o str(d) \o <<"_">> \o str(tday)

\* lines 74-76: the f-string of the product code and the two dates without
\* their dashes; the product code is one item of the sequence
task_name(p, d, tday) == <<p, "_">> \o replace(str(d)) \o <<"_">> \o replace(str(tday))

(* The for loop of lines 52-85 over the products in the order `order`.     *)
(* first[p] is the row of the platform's table that comes first            *)
(* (sub["date"][0]), listed[p] the order list(layers) has.  A task is the  *)
(* arguments Submit is built with; product is the p it was built for.      *)
RECURSIVE PlanLoop(_, _, _, _, _, _, _)
PlanLoop(order, missing, cat, tday, dbg, first, listed) ==
    IF order = <<>>
    THEN [raised |-> "none", tasks |-> <<>>]
    ELSE LET p == Head(order)
             sub == { r \in missing : r.platform = p }
             day == Day(first[p].date)
             rest == PlanLoop(Tail(order), missing, cat, tday, dbg, first, listed)
         IN  IF ~AssertOneDate(sub, dbg)
             THEN [raised |-> "AssertionError", tasks |-> <<>>]
             ELSE IF rest.raised # "none" THEN rest
             ELSE IF tday - day = 0 THEN rest
             ELSE [raised |-> "none",
                   tasks |-> <<[name |-> task_name(p, day, tday),
                                product |-> p,
                                products |-> [i \in 1..Cardinality(
                                    SelectLayers({ r.element : r \in sub }, cat[p])) |-> p],
                                layers |-> listed[p],
                                start_date |-> str(day),
                                end_date |-> str(tday)]>> \o rest.tasks]

(* start_missing_tasks: what it may return.  The order of                  *)
(* list(set(missing["platform"])) and of list(layers) is the set's, and    *)
(* the first row of a platform's table is the store's choice.  The tasks   *)
(* are launched after the loop, when start_now is set.                     *)
start_missing_tasks(d, cat, tday, dbg, start_now) ==
    LET missing == find_missing_data(d)
        products == { r.platform : r \in missing }
        subOf(p) == { r \in missing : r.platform = p }
        Firsts == { f \in [products -> missing] : \A p \in products : f[p] \in subOf(p) }
        Listings == { l \in [products -> UNION { Perms(SelectLayers({ r.element : r \in subOf(p) },
                                                                     cat[p])) : p \in products }] :
                        \A p \in products :
                            l[p] \in Perms(SelectLayers({ r.element : r \in subOf(p) }, cat[p])) }
    IN  { [raised |-> r.raised, tasks |-> r.tasks,
           launched |-> (r.raised = "none" /\ start_now)] :
          r \in { PlanLoop(order, missing, cat, tday, dbg, first, listed) :
                    order \in Perms(products), first \in Firsts, listed \in Listings } }

\* the layers a Product may offer
LayerDicts ==
    { [k \in {"NDVI", "NDVI_std_dev", "NDVI_pft"} |-> [IsQA |-> FALSE]],
      [k \in {"NDVI", "EVI", "EVI2", "EVI_StdDev", "evi_Quality"} |-> [IsQA |-> (k = "evi_Quality")]],
      [k \in {"NDVI_STD_dev", "EVI", "Fpar"} |-> [IsQA |-> (k = "EVI")]] }

Platforms == { r.platform : r \in Rows }

PlanInit ==
    /\ \E dat \in Batches : db = post(EmptyDb, dat).db
    /\ op = "none"
    /\ opArg = <<>>
    /\ opResult = "none"
    /\ dbBefore = EmptyDb
    /\ repeat = 0
    /\ SchedIdle
    /\ today \in 0..MaxDay
    /\ catalog \in [Platforms -> LayerDicts]
    /\ debug \in BOOLEAN
    /\ planOp = "none"
    /\ planResult = "none"

FindMissingData ==
    /\ planOp = "none"
    /\ planOp' = "find_missing_data"
    /\ planResult' = [raised |-> "none", dat |-> find_missing_data(db)]
    /\ UNCHANGED <<today, catalog, debug>>
    /\ UNCHANGED <<storeVars, schedVars>>

PlanTasks ==
    /\ planOp = "none"
    /\ planOp' = "start_missing_tasks"
    /\ \E start_now \in BOOLEAN :
          planResult' \in start_missing_tasks(db, catalog, today, debug, start_now)
    /\ UNCHANGED <<today, catalog, debug>>
    /\ UNCHANGED <<storeVars, schedVars>>

PlanNext == FindMissingData \/ PlanTasks

PlanSpec == PlanInit /\ [][PlanNext]_vars

----------------------------------------------------------------------------
(* Properties of the update cycle (Spec).                                  *)

RECURSIVE MaxOf(_)
MaxOf(f) ==
    IF Len(f) = 0 THEN 0
    ELSE LET m == MaxOf(Tail(f)) IN IF Head(f) > m THEN Head(f) ELSE m

\* C1: when every task is pending for fewer than K rounds and then
\* downloads, wait_on_tasks ends within K rounds with every task downloaded
\* exactly once (K is one more than the longest pending time).
C1_SchedulerTermination ==
    ( /\ pc \in { "update_db", "done" }
      /\ Len(outcome) >= 1
      /\ \A t \in DOMAIN launched : launched[t]
      /\ \A t \in DOMAIN outcome : outcome[t] = "ready" )
    => /\ round <= MaxOf(pendingRounds) + 1
       /\ \A t \in DOMAIN downloaded : downloaded[t] = 1

\* C2: when update_db starts, no task's last poll ended with
\* PendingTaskError.
C2_PostAfterAllResolved ==
    (pc = "update_db") => \A t \in DOMAIN lastPoll : lastPoll[t] # "PendingTaskError"

Failed == { t \in DOMAIN lastPoll : lastPoll[t] = "failed" }

\* C12: a failure of a download other than the pending signal ends the run
\* where it is raised: the tasks after the failing one are not polled in
\* that round, no task is polled twice in it, the loop does not sleep or
\* start another round, and update_db is not reached.
C12_FailurePropagates ==
    Failed # {} =>
        /\ pc = "raised"
        /\ ~posted
        /\ Failed = { tasks[idx - 1] }
        /\ polls[tasks[idx - 1]] = round
        /\ \A j \in idx..Len(tasks) : polls[tasks[j]] = round - 1

C12_Witness ==
    /\ pc = "raised"
    /\ round >= 2
    /\ idx <= Len(tasks)
    /\ \E t \in DOMAIN lastPoll : lastPoll[t] = "downloaded"

\* C14: no task's download is attempted before its launch, whatever
\* start_now is.
C14_LaunchBeforeDownload ==
    \A t \in DOMAIN polls : polls[t] > 0 => launched[t]

\* C14, amended: the tasks are launched in start_missing_tasks, before the
\* first poll, exactly when start_now is set; wait_on_tasks launches none.
C14_LaunchOnlyAtStart ==
    /\ pc = "start_missing_tasks" => \A t \in DOMAIN polls : polls[t] = 0
    /\ pc # "start_missing_tasks" => \A t \in DOMAIN launched : launched[t] = startNow

C14_Witness ==
    /\ startNow
    /\ Len(polls) >= 2
    /\ \E t \in DOMAIN polls : polls[t] > 0 /\ launched[t]

\* C16: a poll is of the task at the loop's position; the tasks before it in
\* the list come before it in the input list and have been polled in this
\* round; and a task whose download has returned is not polled again.
C16_PollOrderNoRepoll ==
    [][\A t \in DOMAIN polls :
          polls'[t] # polls[t] =>
              /\ lastPoll[t] # "downloaded"
              /\ idx \in DOMAIN tasks /\ tasks[idx] = t
              /\ polls'[t] = round
              /\ \A j \in 1..(idx - 1) : tasks[j] < t /\ polls[tasks[j]] = round]_vars

\* a later round polls the tasks still pending after one has downloaded
C16_Witness ==
    /\ round >= 2
    /\ \E t, u \in DOMAIN polls :
          /\ lastPoll[t] = "downloaded" /\ polls[t] < round
          /\ t < u /\ polls[u] = round

----------------------------------------------------------------------------
(* Properties of the store (StoreSpec).                                    *)

Written(d, row) ==
    /\ BagIn(row.station, d.stations)
    /\ BagIn(ObsProps(row), d.obs)
    /\ BagIn(Edge(row), d.edges)

\* the row's id is stored on a node with other properties, under the constraint
Collides(d, row) ==
    d.schema /\ ~BagIn(ObsProps(row), d.obs) /\ IdTaken(d, row.id)

WithId(d, id) == { o \in BagToSet(d.obs) : o.id = id }

\* C3: when post is called a second time with the same batch, the second
\* call adds no Station node, no Observation node and no OBSERVES edge.
C3_PostIdempotent ==
    (op = "post" /\ repeat = 2) =>
        /\ db.stations = dbBefore.stations
        /\ db.obs = dbBefore.obs
        /\ db.edges = dbBefore.edges

\* a second call of a batch of two rows that are both stored
C3_Witness ==
    /\ op = "post" /\ repeat = 2
    /\ Len(opArg) >= 2
    /\ opArg[1] # opArg[2]
    /\ Written(db, opArg[1]) /\ Written(db, opArg[2])

\* C4: on a store with the constraints, a batch holding two rows with the
\* same id and different values leaves exactly one Observation with that
\* id: the one stored before, or else the one of the first row with that id;
\* no stored Observation is changed or removed, and post returns normally.
C4_FirstWrite ==
    (op = "post" /\ dbBefore.schema) =>
        /\ opResult = "none"
        /\ \A o \in BagToSet(dbBefore.obs) : CopiesIn(o, db.obs) = CopiesIn(o, dbBefore.obs)
        /\ \A i, j \in 1..Len(opArg) :
              ( /\ i < j
                /\ opArg[i].id = opArg[j].id
                /\ opArg[i].value # opArg[j].value
                /\ \A k \in 1..(i - 1) : opArg[k].id # opArg[i].id )
              => /\ Cardinality(WithId(db, opArg[i].id)) = 1
                 /\ \A o \in WithId(db, opArg[i].id) : CopiesIn(o, db.obs) = 1
                 /\ IdTaken(dbBefore, opArg[i].id)
                       => WithId(db, opArg[i].id) = WithId(dbBefore, opArg[i].id)
                 /\ ~IdTaken(dbBefore, opArg[i].id)
                       => WithId(db, opArg[i].id) = { ObsProps(opArg[i]) }

\* such a batch has been posted to a store with the constraints
C4_Witness ==
    /\ op = "post" /\ dbBefore.schema
    /\ \E i, j \in 1..Len(opArg) :
          /\ i < j
          /\ opArg[i].id = opArg[j].id
          /\ opArg[i].value # opArg[j].value
          /\ ~IdTaken(dbBefore, opArg[i].id)
          /\ BagIn(ObsProps(opArg[i]), db.obs)

\* C5: post returns normally, and a record that does not collide is written
\* although a record before it in the batch collided.
C5_CollisionDoesNotAbort ==
    (op = "post") =>
        /\ opResult = "none"
        /\ \A i, j \in 1..Len(opArg) :
              (i < j /\ Collides(db, opArg[i]) /\ ~Collides(db, opArg[j]))
              => Written(db, opArg[j])

\* a record was written by this call after another one collided
C5_Witness ==
    /\ op = "post"
    /\ \E i, j \in 1..Len(opArg) :
          /\ i < j
          /\ Collides(dbBefore, opArg[i])
          /\ ~Written(dbBefore, opArg[j])
          /\ Written(db, opArg[j])

\* C11: init_db on a store that has the index and the two constraints
\* completes without an error and leaves them in place.
C11_InitDbIdempotent ==
    (op = "init_db" /\ dbBefore.schema) => (opResult = "none" /\ db.schema)

\* C13: on a store with the constraints, whatever init_db and post calls
\* were made, no two Observation nodes have the same id and no two Station
\* nodes have the same name.
C13_UniqueIdsAndNames ==
    db.schema =>
        /\ \A o \in BagToSet(db.obs) :
              /\ CopiesIn(o, db.obs) = 1
              /\ WithId(db, o.id) = { o }
        /\ \A n \in BagToSet(db.stations) : CopiesIn(n, db.stations) = 1

\* a batch was posted again over stored ids: one record collided, another
\* was stored already
C13_Witness ==
    /\ db.schema /\ op = "post"
    /\ BagCardinality(db.obs) >= 2
    /\ \E i, j \in 1..Len(opArg) :
          /\ Collides(dbBefore, opArg[i])
          /\ Written(dbBefore, opArg[j])

\* the OBSERVES edges that end at the Observation node o
EdgesInto(d, o) == { e \in BagToSet(d.edges) : e.obs = o }

\* C17: every Observation node has exactly one incoming OBSERVES edge; a
\* record with a stored Observation and another timestamp or station adds
\* no second one.
C17_OneEdgePerObservation ==
    db.schema =>
        \A o \in BagToSet(db.obs) : Copies(db.edges, EdgesInto(db, o)) = 1

\* the store after the first i records of the batch
AfterRecords(i) == post(dbBefore, SubSeq(opArg, 1, i)).db

\* C19: a record of the batch that collides leaves the store as the records
\* before it left it: no Station, no Observation and no edge is added; the
\* records written before it stay written, and the rest of the batch goes
\* on from that store.
C19_SkippedRecordNoEffect ==
    (op = "post") =>
        \A i \in 1..Len(opArg) :
            Collides(AfterRecords(i - 1), opArg[i]) =>
                /\ AfterRecords(i) = AfterRecords(i - 1)
                /\ db = post(AfterRecords(i - 1), SubSeq(opArg, i + 1, Len(opArg))).db
                /\ \A k \in 1..(i - 1) :
                      Written(AfterRecords(i - 1), opArg[k]) => Written(db, opArg[k])
                /\ (\A k \in 1..Len(opArg) : k # i => opArg[k].station # opArg[i].station)
                      => CopiesIn(opArg[i].station, db.stations)
                           = CopiesIn(opArg[i].station, dbBefore.stations)

\* a record with a new station name collided after this call had written
\* another record
C19_Witness ==
    /\ op = "post"
    /\ \E i \in 1..Len(opArg) :
          /\ Collides(AfterRecords(i - 1), opArg[i])
          /\ ~BagIn(opArg[i].station, db.stations)
          /\ \E k \in 1..(i - 1) :
                Written(db, opArg[k]) /\ ~Written(dbBefore, opArg[k])

InRange(e, q) ==
    /\ e.station = q.station
    /\ e.obs.element = q.element
    /\ q.start_time <= e.timestamp
    /\ e.timestamp <= q.end_time

\* C6: query returns a table, with one row per OBSERVES edge of the station
\* to an Observation of the element with start_time <= timestamp <= end_time
\* and no other row (rows told apart by their date).
C6_RangeQuery ==
    (op = "query") =>
        /\ opResult.raised = "none"
        /\ \A t \in Times \cup { e.timestamp : e \in BagToSet(db.edges) } :
              Copies(opResult.dat, { r \in BagToSet(opResult.dat) : r.date = t })
                = Copies(db.edges, { e \in BagToSet(db.edges) : InRange(e, opArg) /\ e.timestamp = t })
        /\ BagCardinality(opResult.dat)
                = Copies(db.edges, { e \in BagToSet(db.edges) : InRange(e, opArg) })

\* C20: when no edge of the station to an Observation of the element has
\* its timestamp in the range, query raises nothing and returns a table
\* without rows.
C20_EmptyQuery ==
    (op = "query" /\ \A e \in BagToSet(db.edges) : ~InRange(e, opArg)) =>
        (opResult.raised = "none" /\ opResult.dat = EmptyBag)

\* C7: every row of the table query returns holds, under the column names
\* value, date, station, platform and element, the value, the edge
\* timestamp, the station name, the platform and the element of one edge
\* in range.
C7_ColumnsNamed ==
    (op = "query" /\ opResult.raised = "none") =>
        \A r \in BagToSet(opResult.dat) :
            \E e \in BagToSet(db.edges) :
                /\ InRange(e, opArg)
                /\ r.value = e.obs.value
                /\ r.date = e.timestamp
                /\ r.station = e.station
                /\ r.platform = e.obs.platform
                /\ r.element = e.obs.element

----------------------------------------------------------------------------
(* Properties of gap detection and planning (PlanSpec).                    *)

StoredPlatforms(d) == { e.obs.platform : e \in BagToSet(d.edges) }
StoredElements(d, p) == { e.obs.element : e \in { x \in BagToSet(d.edges) : x.obs.platform = p } }
LatestOf(d, p) == Max({ e.timestamp : e \in { x \in BagToSet(d.edges) : x.obs.platform = p } })

\* two rows of one platform with different dates
Ambiguous(table) ==
    \E r1, r2 \in table : r1.platform = r2.platform /\ r1.date # r2.date

Range(f) == { f[i] : i \in DOMAIN f }

\* C10: the layers of every planned task are, without duplicates, the layers
\* of the product's catalog that hold an element of the platform (letter
\* case ignored), are not QA and hold no RM_STRINGS entry; from NDVI,
\* NDVI_std_dev and NDVI_pft the element ndvi selects NDVI alone; and the
\* product list is as long as the layer list.
C10_LayerFiltering ==
    (planOp = "start_missing_tasks" /\ planResult.raised = "none") =>
        \A i \in DOMAIN planResult.tasks :
            LET t == planResult.tasks[i]
                layers == catalog[t.product]
                elements == StoredElements(db, t.product)
            IN  /\ Range(t.layers) =
                     { n \in DOMAIN layers :
                         /\ \E e \in elements : Contains(lower(Chars(n)), lower(Chars(e)))
                         /\ ~layers[n].IsQA
                         /\ \A k \in DOMAIN RM_STRINGS : ~Contains(Chars(n), Chars(RM_STRINGS[k])) }
                /\ \A a, b \in DOMAIN t.layers : a # b => t.layers[a] # t.layers[b]
                /\ Len(t.products) = Len(t.layers)
                /\ (DOMAIN layers = {"NDVI", "NDVI_std_dev", "NDVI_pft"} /\ elements = {"ndvi"})
                      => Range(t.layers) = {"NDVI"}

\* a task was planned for the element ndvi from NDVI, NDVI_std_dev and NDVI_pft
C10_Witness ==
    /\ planOp = "start_missing_tasks"
    /\ planResult.raised = "none"
    /\ \E i \in DOMAIN planResult.tasks :
          /\ DOMAIN catalog[planResult.tasks[i].product] = {"NDVI", "NDVI_std_dev", "NDVI_pft"}
          /\ StoredElements(db, planResult.tasks[i].product) = {"ndvi"}
          /\ planResult.tasks[i].layers = <<"NDVI">>

\* the day after the day of the platform's latest timestamp
GapStart(d, p) == Day(LatestOf(d, p)) + 1

TasksOf(p) == { i \in DOMAIN planResult.tasks : planResult.tasks[i].product = p }

IsYYYYMMDD(s) == Len(s) = 8 /\ \A i \in DOMAIN s : s[i] \in Range(DigitChars)

DayOf(s) == CHOOSE z \in 0..(MaxDay + 2) : str(z) = s

\* C18: every planned task has start_date <= end_date.
C18_NonEmptyRange ==
    (planOp = "start_missing_tasks") =>
        \A i \in DOMAIN planResult.tasks :
            DayOf(planResult.tasks[i].start_date) <= DayOf(planResult.tasks[i].end_date)

====
